---- MODULE Spec2Model ----
(***************************************************************************)
(* State-machine model of qt_reader.py: the encoding cache                 *)
(* (get_file_encoding), the chapter index (_extract_chapters), the         *)
(* contrast colour (get_contrast_color), the configuration file            *)
(* (load_config / save_config) and the reader session with its             *)
(* reading-progress store (_save_progress / _load_progress), its settings, *)
(* its hotkeys and the events of its two threads.                          *)
(***************************************************************************)
EXTENDS Integers, Sequences, FiniteSets, TLC

VARIABLES
    cacheFile,      \* content of encoding_cache.json (CACHE_PATH)
    docs,           \* the document files on disk, by path
    encLast,        \* outcome of the latest get_file_encoding call
    encPrev,        \* outcome of the call before it
    encModified,    \* paths whose file changed since the latest call
    encCalls,       \* number of get_file_encoding calls made
    envChanges,     \* number of changes made to the files from outside
    text,           \* full_text_content, a sequence of characters
    chapters,       \* self.chapters
    prevChapters,   \* self.chapters as the build before the latest left it
    builds,         \* number of _extract_chapters runs on this text
    phase,          \* the process: "off", "ready" (window built), "closed"
    config,         \* self.config, the in-memory configuration
    configFile,     \* content of config.json (CONFIG_PATH)
    memos,          \* the sidecar files (file_memo), by document path
    current_scroll_value,   \* self.current_scroll_value
    sbValue,        \* text_edit.verticalScrollBar().value()
    sbMax,          \* text_edit.verticalScrollBar().maximum()
    restorePending, \* the singleShot of _show_current_page has not fired
    lastOp,         \* the operation that ran last
    lastSave,       \* the latest _save_progress call
    startInfo,      \* what the construction found and loaded, if it ran last
    hotkeys,        \* the hotkeys registered with the keyboard library
    timerActive,    \* save_timer is running
    lastJump,       \* the jump_to_chapter call, when it ran last
    settingOps,     \* number of settings changed so far
    lastWrite,      \* outcome of the save_config call of the latest setter
    font_size,      \* self.font_size
    lines_per_scroll,       \* self.lines_per_scroll
    is_monitoring_active,   \* self.is_monitoring_active
    scrollCall,     \* a _scroll_lines call of the keyboard thread under way
    colorCall,      \* the latest get_contrast_color call
    colorPrev,      \* the call before it
    loaded          \* the latest load_config call

encVars == <<cacheFile, docs, encLast, encPrev, encModified, encCalls, envChanges>>
chapVars == <<text, chapters, prevChapters, builds>>
fileVars == <<configFile, memos>>
winVars == <<phase, config, current_scroll_value, sbValue, sbMax, restorePending>>
histVars == <<lastOp, lastSave, startInfo>>
ctlVars == <<hotkeys, timerActive, lastJump, settingOps, lastWrite>>
attrVars == <<font_size, lines_per_scroll, is_monitoring_active>>
sessVars == <<fileVars, winVars, histVars, ctlVars, attrVars, scrollCall>>

pureVars == <<colorCall, colorPrev, loaded>>

vars == <<encVars, chapVars, sessVars, pureVars>>

-----------------------------------------------------------------------------
(* Bounds of the model *)

MaxCalls == 2
MaxEnvChanges == 1
MaxMtime == 2
MaxLines == 3
MaxBuilds == 2
MaxScroll == 11
MaxSettingOps == 2

-----------------------------------------------------------------------------
(* The encoding cache: get_file_encoding, lines 66-96 *)

Paths == {"novel.txt", "b.txt"}

DefaultEncoding == "utf-8"

\* what chardet.detect can propose; NoneDetected is result['encoding'] = None
NoneDetected == "None"
Detectable == {"gbk", "utf-8", NoneDetected}

\* a record of the cache lacking a field: .get('mtime') gives None, which
\* equals no mtime of a file; ['encoding'] raises KeyError
NoMtime == 0
NoEncoding == "<no encoding field>"

Mtimes == 1..MaxMtime

\* the value stored under a path in the cache mapping
NoEntry == [kind |-> "none", encoding |-> NoEncoding, mtime |-> NoMtime]
NonRecord == [kind |-> "nonrecord", encoding |-> NoEncoding, mtime |-> NoMtime]
Entry(e, m) == [kind |-> "record", encoding |-> e, mtime |-> m]

EmptyMap == [p \in Paths |-> NoEntry]

\* contents of the cache file: no file, text json.load rejects, JSON that is a
\* number/null/boolean, JSON that is a list or a string (has = the paths for
\* which `path in value` holds), or a JSON object
FileAbsent == [kind |-> "absent", entries |-> EmptyMap, has |-> {}]
FileGarbage == [kind |-> "garbage", entries |-> EmptyMap, has |-> {}]
FileScalar == [kind |-> "scalar", entries |-> EmptyMap, has |-> {}]
FileList(h) == [kind |-> "list", entries |-> EmptyMap, has |-> h]
FileMap(es) == [kind |-> "map", entries |-> es, has |-> {}]

\* the state of a document file
DocMissing == [state |-> "missing", mtime |-> NoMtime, detect |-> NoneDetected]
DocNoStat == [state |-> "nostat", mtime |-> NoMtime, detect |-> NoneDetected]
DocUnreadable(m) == [state |-> "unreadable", mtime |-> m, detect |-> NoneDetected]
DocOk(m, d) == [state |-> "ok", mtime |-> m, detect |-> d]

DocStates ==
    {DocMissing, DocNoStat}
        \cup {DocUnreadable(m) : m \in Mtimes}
        \cup {DocOk(m, d) : m \in Mtimes, d \in Detectable}

\* lines 68-74: the cache as loaded; a missing or unparseable file gives {}
LoadCache(file) ==
    IF file.kind \in {"absent", "garbage"} THEN FileMap(EmptyMap) ELSE file

\* line 78, `file_path in cache`: raises TypeError on a number/null/boolean
InRaises(cache) == cache.kind = "scalar"

InCache(cache, p) ==
    \/ cache.kind = "map" /\ cache.entries[p].kind # "none"
    \/ cache.kind = "list" /\ p \in cache.has

\* line 78, `cache[file_path].get('mtime')`: raises on a list or string
\* (TypeError) and on a value that is not an object (AttributeError)
GetMtimeRaises(cache, p) ==
    \/ cache.kind = "list"
    \/ cache.kind = "map" /\ cache.entries[p].kind = "nonrecord"

\* line 78: the comparison of the stored mtime with the file's mtime
MtimeMatchesInverted(cache, p, mtime) == cache.entries[p].mtime # mtime

MtimeMatches(cache, p, mtime) == cache.entries[p].mtime = mtime

\* line 88: result['encoding'] or 'utf-8'
DetectedEncoding(doc) ==
    IF doc.detect = NoneDetected THEN DefaultEncoding ELSE doc.detect

\* line 90: the mapping with the entry of p replaced
PutEntryKeepingOldMtime(cache, p, e, m) ==
    [cache.entries EXCEPT ![p] =
        Entry(e, IF @.kind = "record" THEN @.mtime ELSE m)]

PutEntry(cache, p, e, m) == [cache.entries EXCEPT ![p] = Entry(e, m)]

Outcome(kind, value, source, detected, contentRead, wrote, file) ==
    [kind |-> kind, value |-> value, source |-> source, detected |-> detected,
     contentRead |-> contentRead, wrote |-> wrote, file |-> file]

\* lines 80-82: the document does not exist
MissingOutcomeWritingCache(file, cache, p) ==
    Outcome("ret", DefaultEncoding, "default", FALSE, FALSE, "ok",
            FileMap(PutEntry(cache, p, DefaultEncoding, NoMtime)))

MissingOutcome(file, cache, p) ==
    Outcome("ret", DefaultEncoding, "default", FALSE, FALSE, "no", file)

Raised(file) == Outcome("raise", "", "none", FALSE, FALSE, "no", file)

\* lines 84-96: detection and the cache write; w is what the file system does
\* with the write: "ok", "openfail" (open(CACHE_PATH, 'w') raises, the file
\* is untouched) or "partial" (the file is truncated and the dump fails)
DetectOutcome(file, cache, doc, p, w) ==
    IF doc.state = "unreadable"
    THEN Outcome("ret", DefaultEncoding, "default", FALSE, FALSE, "no", file)
    ELSE IF cache.kind = "list"
    THEN Outcome("ret", DefaultEncoding, "default", TRUE, TRUE, "no", file)
    ELSE IF w = "ok"
    THEN Outcome("ret", DetectedEncoding(doc), "detect", TRUE, TRUE, "ok",
                 FileMap(PutEntry(cache, p, DetectedEncoding(doc), doc.mtime)))
    ELSE IF w = "openfail"
    THEN Outcome("ret", DefaultEncoding, "default", TRUE, TRUE, "fail", file)
    ELSE Outcome("ret", DefaultEncoding, "default", TRUE, TRUE, "fail", FileGarbage)

\* lines 66-96: the whole call, on cache file `file` and document `doc`
EncodingOutcome(file, doc, p, w) ==
    LET cache == LoadCache(file) IN
    IF doc.state = "missing" THEN MissingOutcome(file, cache, p)
    ELSE IF doc.state = "nostat" THEN Raised(file)
    ELSE IF InRaises(cache) THEN Raised(file)
    ELSE IF InCache(cache, p)
    THEN IF GetMtimeRaises(cache, p) THEN Raised(file)
         ELSE IF MtimeMatches(cache, p, doc.mtime)
         THEN IF cache.entries[p].encoding = NoEncoding THEN Raised(file)
              ELSE Outcome("ret", cache.entries[p].encoding, "cache",
                           FALSE, FALSE, "no", file)
         ELSE DetectOutcome(file, cache, doc, p, w)
    ELSE DetectOutcome(file, cache, doc, p, w)

WriteResults == {"ok", "openfail", "partial"}

NoCall ==
    [path |-> "", modified |-> FALSE, before |-> FileAbsent, doc |-> DocMissing,
     out |-> Raised(FileAbsent)]

\* one call get_file_encoding(p)
GetFileEncoding(p) ==
    /\ encCalls < MaxCalls
    /\ \E w \in WriteResults :
        LET out == EncodingOutcome(cacheFile, docs[p], p, w) IN
        /\ cacheFile' = out.file
        /\ encLast' = [path |-> p, modified |-> p \in encModified,
                       before |-> cacheFile, doc |-> docs[p], out |-> out]
    /\ encPrev' = encLast
    /\ encModified' = {}
    /\ encCalls' = encCalls + 1
    /\ UNCHANGED <<docs, envChanges, chapVars, sessVars, pureVars>>

\* the document is created, deleted, rewritten, touched or has its
\* permissions changed from outside the program
ChangeDocument(p) ==
    /\ envChanges < MaxEnvChanges
    /\ \E d \in DocStates \ {docs[p]} : docs' = [docs EXCEPT ![p] = d]
    /\ encModified' = encModified \cup {p}
    /\ envChanges' = envChanges + 1
    /\ UNCHANGED <<cacheFile, encLast, encPrev, encCalls, chapVars, sessVars, pureVars>>


-----------------------------------------------------------------------------
(* The chapter index: ReaderWindow._extract_chapters, lines 717-753 *)

\* Characters are one-element strings. The CJK characters of the patterns are
\* written by name: DI, ZHANG, JIE, the numerals YI and SHI, and the
\* enumeration comma DUN.
NL == "NL"
Whitespace == {" ", "TAB", NL}
Digits == {"1", "2"}
CjkNumerals == {"YI", "SHI"}
Letters == {"C", "c", "H", "h", "a", "p", "t", "e", "r", "x"}
Alphabet ==
    Whitespace \cup Digits \cup CjkNumerals \cup Letters
        \cup {"DI", "ZHANG", "JIE", "DUN", "."}

\* re.IGNORECASE: a letter of a pattern matches both of its cases
Lower(c) == IF c = "C" THEN "c" ELSE IF c = "H" THEN "h" ELSE c

Caseless(c) == {d \in Alphabet : Lower(d) = Lower(c)}

\* the atoms of the patterns: a character set taken once, one or more times
\* (+) or zero or more times (*)
One(set) == [set |-> set, q |-> "1"]
Plus(set) == [set |-> set, q |-> "+"]
Star(set) == [set |-> set, q |-> "*"]

\* `.` matches every character but the newline
AnyChar == Alphabet \ {NL}

\* the word of pattern 3, case folded as compiled
Word(w) == [i \in 1..Len(w) |-> One(Caseless(w[i]))]

\* lines 726-732: the five heading patterns, in order
Patterns ==
    << <<One({"DI"}), Plus(CjkNumerals \cup Digits), One({"ZHANG"}),
         Star(Whitespace), Plus(AnyChar)>>,
       <<One({"DI"}), Plus(CjkNumerals \cup Digits), One({"JIE"}),
         Star(Whitespace), Plus(AnyChar)>>,
       Word(<<"C", "h", "a", "p", "t", "e", "r">>)
           \o <<Plus(Whitespace), Plus(Digits), Plus(AnyChar)>>,
       <<Plus(Digits), Plus(Whitespace \cup {".", "DUN"}), Plus(AnyChar)>>,
       <<Plus(CjkNumerals), Plus(Whitespace \cup {"DUN", "."}), Plus(AnyChar)>> >>

\* re.match(pattern, s): the pattern matches a prefix of s, from atom i of the
\* pattern and character j of s, with backtracking; rep is TRUE inside the
\* repetition of atom i, after its first character
RECURSIVE MatchFrom(_, _, _, _, _)
MatchFrom(pat, i, s, j, rep) ==
    IF i > Len(pat) THEN TRUE
    ELSE LET a == pat[i]
             here == j <= Len(s) /\ s[j] \in a.set
         IN IF rep
            THEN \/ MatchFrom(pat, i + 1, s, j, FALSE)
                 \/ here /\ MatchFrom(pat, i, s, j + 1, TRUE)
            ELSE IF a.q = "1" THEN here /\ MatchFrom(pat, i + 1, s, j + 1, FALSE)
            ELSE IF a.q = "+" THEN here /\ MatchFrom(pat, i, s, j + 1, TRUE)
            ELSE MatchFrom(pat, i, s, j, TRUE)

ReMatch(pat, s) == MatchFrom(pat, 1, s, 1, FALSE)

\* lines 741-749: the first matching pattern ends the test
IsHeadingSkippingLast(line) ==
    \E k \in 1..(Len(Patterns) - 1) : ReMatch(Patterns[k], line)

IsHeading(line) == \E k \in 1..Len(Patterns) : ReMatch(Patterns[k], line)

\* str.strip(): leading and trailing whitespace removed
RECURSIVE LStrip(_)
LStrip(s) ==
    IF s # <<>> /\ Head(s) \in Whitespace THEN LStrip(Tail(s)) ELSE s

RECURSIVE RStrip(_)
RStrip(s) ==
    IF s # <<>> /\ s[Len(s)] \in Whitespace
    THEN RStrip(SubSeq(s, 1, Len(s) - 1)) ELSE s

Strip(s) == RStrip(LStrip(s))

\* str.split('\n'): the lines of t, one more than its newlines
RECURSIVE SplitFrom(_, _, _)
SplitFrom(t, j, cur) ==
    IF j > Len(t) THEN <<cur>>
    ELSE IF t[j] = NL THEN <<cur>> \o SplitFrom(t, j + 1, <<>>)
    ELSE SplitFrom(t, j + 1, Append(cur, t[j]))

Split(t) == SplitFrom(t, 1, <<>>)

Chapter(title, position, lineNumber) ==
    [title |-> title, position |-> position, line_number |-> lineNumber]

\* line 751: what one line adds to char_count; `line` is the stripped line
Advance(line) == Len(line) + 1

\* lines 735-751: the loop over the lines, from line i (zero-based) on, with
\* char_count = count and the chapters found so far
RECURSIVE Scan(_, _, _, _)
Scan(lines, i, count, found) ==
    IF i >= Len(lines) THEN found
    ELSE LET line == Strip(lines[i + 1])
             hit == line # <<>> /\ IsHeading(line)
         IN Scan(lines, i + 1, count + Advance(line),
                 IF hit THEN Append(found, Chapter(line, count, i)) ELSE found)

\* lines 717-753: the chapter list after the call, `old` the list before it
ExtractAccumulating(old, t) ==
    IF t = <<>> THEN old ELSE Scan(Split(t), 0, 0, old)

Extract(old, t) ==
    IF t = <<>> THEN <<>> ELSE Scan(Split(t), 0, 0, <<>>)

ExtractChapters ==
    /\ builds < MaxBuilds
    /\ chapters' = Extract(chapters, text)
    /\ prevChapters' = chapters
    /\ builds' = builds + 1
    /\ UNCHANGED <<text, encVars, sessVars, pureVars>>

\* the lines the texts of the model are made of
LinePool ==
    { <<"DI", "YI", "ZHANG", " ", "x">>,
      <<" ", " ", "DI", "1", "SHI", "JIE", "x", " ">>,
      <<"DI", "YI", "ZHANG">>,
      <<"x", "DI", "YI", "ZHANG", "x">>,
      <<"c", "H", "a", "p", "t", "e", "r", " ", "1", "2">>,
      <<"C", "h", "a", "p", "t", "e", "r", " ", "1">>,
      <<"TAB", "1", ".", " ", "x">>,
      <<"1", "2">>,
      <<"YI", "DUN", "x", " ">>,
      <<"x", "x">>,
      <<" ">>,
      <<>> }

RECURSIVE Join(_)
Join(lines) ==
    IF lines = <<>> THEN <<>>
    ELSE IF Len(lines) = 1 THEN lines[1]
    ELSE lines[1] \o <<NL>> \o Join(Tail(lines))

Texts == UNION {{Join(ls) : ls \in [1..n -> LinePool]} : n \in 0..MaxLines}

-----------------------------------------------------------------------------
(* The contrast colour: calculate_luminance and get_contrast_color,        *)
(* lines 98-124.  A colour string is a sequence of characters; the word    *)
(* "transparent", in each of its spellings, is one element.                *)

Transparent == <<"transparent">>
Black == <<"#", "0", "0", "0", "0", "0", "0">>
White == <<"#", "F", "F", "F", "F", "F", "F">>

\* line 100: color_hex.lower() == "transparent"
IsTransparent(c) ==
    c \in {<<"transparent">>, <<"Transparent">>, <<"TRANSPARENT">>}

\* the hexadecimal digits the model draws from, with their values
HexDigits == {"0", "B", "C", "F", "f"}

HexVal(d) ==
    CASE d = "0" -> 0 [] d = "B" -> 11 [] d = "C" -> 12 [] d \in {"F", "f"} -> 15

\* the mark of a ValueError of int(text, 16)
NoInt == 999

\* text[a:b] of Python, a and b counted from 0
Slice(s, a, b) == SubSeq(s, a + 1, IF b < Len(s) THEN b ELSE Len(s))

\* int(text, 16) of a slice of at most two characters: surrounding
\* whitespace is dropped and one sign is accepted before the digits
IntBase16(s) ==
    LET t == Strip(s)
    IN IF Len(t) = 1 /\ t[1] \in HexDigits THEN HexVal(t[1])
       ELSE IF Len(t) = 2 /\ t[1] \in HexDigits /\ t[2] \in HexDigits
            THEN 16 * HexVal(t[1]) + HexVal(t[2])
       ELSE IF Len(t) = 2 /\ t[1] = "+" /\ t[2] \in HexDigits THEN HexVal(t[2])
       ELSE IF Len(t) = 2 /\ t[1] = "-" /\ t[2] \in HexDigits
            THEN 0 - HexVal(t[2])
       ELSE NoInt

\* the unit of a linearised channel: 1.0 is LumUnit
LumUnit == 100000

\* lines 113-115: c / 12.92 if c <= 0.03928 else ((c + 0.055) / 1.055) ** 2.4
\* for c = v / 255.0, rounded to the unit, for the channel values v that two
\* characters over HexDigits and a sign can give
Linear(v) ==
    CASE v = 0 - 15 -> 0 - 455 [] v = 0 - 12 -> 0 - 364 [] v = 0 - 11 -> 0 - 334
      [] v = 0 -> 0 [] v = 11 -> 335 [] v = 12 -> 368 [] v = 15 -> 478
      [] v = 176 -> 43415 [] v = 187 -> 49693 [] v = 188 -> 50289
      [] v = 191 -> 52100 [] v = 192 -> 52712 [] v = 203 -> 59720
      [] v = 204 -> 60383 [] v = 207 -> 62396 [] v = 240 -> 87137
      [] v = 251 -> 96469 [] v = 252 -> 97345 [] v = 255 -> LumUnit

\* the luminance 0.5, in units of 1 / (10000 * LumUnit)
Half == 5000 * LumUnit

\* lines 98-119: calculate_luminance
CalculateLuminance(c) ==
    IF IsTransparent(c) THEN Half
    ELSE LET h == IF c # <<>> /\ c[1] = "#" THEN Tail(c) ELSE c
             r == IntBase16(Slice(h, 0, 2))
             g == IntBase16(Slice(h, 2, 4))
             b == IntBase16(Slice(h, 4, 6))
         IN IF r = NoInt \/ g = NoInt \/ b = NoInt THEN Half
            ELSE 2126 * Linear(r) + 7152 * Linear(g) + 722 * Linear(b)

GetContrastColorAtLeastHalf(c) ==
    IF CalculateLuminance(c) >= Half THEN Black ELSE White

\* lines 121-124: get_contrast_color
GetContrastColor(c) == IF CalculateLuminance(c) > Half THEN Black ELSE White

NoColorCall == [valid |-> FALSE, input |-> <<>>, luminance |-> 0, result |-> <<>>]

\* one call of get_contrast_color(c)
ContrastCall(c) ==
    /\ colorPrev' = colorCall
    /\ colorCall' = [valid |-> TRUE, input |-> c,
                     luminance |-> CalculateLuminance(c),
                     result |-> GetContrastColor(c)]
    /\ UNCHANGED <<encVars, chapVars, sessVars, loaded>>

\* the channels the six-digit colours of the model are made of
ChannelPairs == {<<"0", "0">>, <<"B", "B">>, <<"B", "C">>, <<"F", "F">>}

HexColors == {<<"#">> \o r \o g \o b : r, g, b \in ChannelPairs}

\* other strings: the sentinel, colours without '#', in lower case, and
\* strings that are no six-digit colour
OtherColors ==
    { <<"transparent">>, <<"Transparent">>, <<"TRANSPARENT">>,
      <<"F", "F", "F", "F", "F", "F">>, <<"0", "0", "0", "0", "0", "0">>,
      <<"#", "f", "f", "f", "f", "f", "f">>,
      <<>>, <<"#">>, <<"#", "F", "F", "F">>, <<"#", "F", "F", "F", "F">>,
      <<"#", "F", "F", "F", "F", "F">>,
      <<"#", "F", "F", "F", "F", "F", "F", "F">>,
      <<"#", "F", "F", "F", "F", "F", "F", "F", "F">>,
      <<"#", "0", "0", "0", "0", "0", "0", "0", "0">>,
      <<"#", "x", "x", "x", "x", "x", "x">>,
      <<"#", "F", "F", "F", "F", "x", "x">>,
      <<"#", "+", "F", "+", "F", "+", "F">>,
      <<"#", "-", "F", "-", "F", "-", "F">>,
      <<"#", " ", "F", " ", "F", " ", "F">>,
      <<"#", "F", "F", "F", "F", " ", "F">>,
      <<" ", "#", "F", "F", "F", "F", "F", "F">>,
      <<"#", "F", "F", "F", "F", "F", "F", " ">>,
      <<"#", "#", "F", "F", "F", "F", "F", "F">>,
      <<"transparent", " ">> }

Colors == HexColors \cup OtherColors

-----------------------------------------------------------------------------
(* The configuration file: load_config and save_config, lines 21-64 *)

\* a value of the reading_progress mapping: no key, an integer, a string (a
\* sequence of characters) or another JSON value
PNone == [kind |-> "none", n |-> 0, s |-> <<>>]
PInt(n) == [kind |-> "int", n |-> n, s |-> <<>>]
PStr(str) == [kind |-> "str", n |-> 0, s |-> str]
POther == [kind |-> "other", n |-> 0, s |-> <<>>]
\* true / false, a float (n in tenths), Infinity and NaN, which json.load reads
PBool(b) == [kind |-> "bool", n |-> IF b THEN 1 ELSE 0, s |-> <<>>]
PFloat(tenths) == [kind |-> "float", n |-> tenths, s |-> <<>>]
PInf == [kind |-> "inf", n |-> 0, s |-> <<>>]
PNan == [kind |-> "nan", n |-> 0, s |-> <<>>]

\* line 40: line_scroll_lines
LinesPerScroll == 4

\* lines 23-42: the defaults (the keys the model follows; window_opacity in
\* hundredths)
DefaultConfig ==
    [file_path |-> "novel.txt",
     font_family |-> "Microsoft YaHei",
     font_size |-> 10,
     font_color |-> <<"#", "E", "0", "E", "0", "E", "0">>,
     background_color |-> Transparent,
     auto_font_color |-> TRUE,
     window_opacity |-> 90,
     show_catalog |-> FALSE,
     left_click_mode |-> "move",
     line_scroll_lines |-> PInt(LinesPerScroll),
     reading_progress |-> [p \in Paths |-> PNone]]

\* what config.json holds: nothing, text that is no JSON, a JSON value that is
\* no object, or an object (a function from its keys to their values)
ConfigAbsent == [kind |-> "absent", config |-> DefaultConfig]
ConfigGarbage == [kind |-> "garbage", config |-> DefaultConfig]
ConfigNonMapping == [kind |-> "other", config |-> DefaultConfig]
ConfigOk(cfg) == [kind |-> "ok", config |-> cfg]

MergeDefaultsOverwriting(c) ==
    [k \in (DOMAIN c) \cup (DOMAIN DefaultConfig) |->
        IF k \in DOMAIN DefaultConfig THEN DefaultConfig[k] ELSE c[k]]

\* lines 49-51: config.setdefault(key, value) for every default
MergeDefaults(c) ==
    [k \in (DOMAIN c) \cup (DOMAIN DefaultConfig) |->
        IF k \in DOMAIN c THEN c[k] ELSE DefaultConfig[k]]

\* lines 44-56: a missing file gives the defaults, and so does every failure
\* of the load: of json.load, or of setdefault on a value that is no object
LoadConfig(file) ==
    IF file.kind = "ok" THEN MergeDefaults(file.config) ELSE DefaultConfig

NotLoaded == [valid |-> FALSE, result |-> DefaultConfig]

\* one call of load_config()
LoadConfigCall ==
    /\ loaded' = [valid |-> TRUE, result |-> LoadConfig(configFile)]
    /\ UNCHANGED <<encVars, chapVars, sessVars, colorCall, colorPrev>>

\* lines 58-64: the file after save_config(cfg); a failure is printed, not raised
SaveConfig(file, cfg, w) ==
    IF w = "ok" THEN ConfigOk(cfg)
    ELSE IF w = "openfail" THEN file
    ELSE ConfigGarbage

-----------------------------------------------------------------------------
(* The progress store: _save_progress and _load_progress, lines 868-899 *)

DecDigits == <<"0", "1", "2", "3", "4", "5", "6", "7", "8", "9">>

DigitChar(d) == DecDigits[d + 1]

DigitVal(c) == CHOOSE d \in 0..9 : DecDigits[d + 1] = c

\* str(n) of an integer
RECURSIVE IntToStr(_)
IntToStr(n) ==
    IF n < 0 THEN <<"-">> \o IntToStr(0 - n)
    ELSE IF n < 10 THEN <<DigitChar(n)>>
    ELSE IntToStr(n \div 10) \o <<DigitChar(n % 10)>>

\* str.isdigit(): not empty and digits only
IsDigit(str) ==
    /\ str # <<>>
    /\ \A i \in 1..Len(str) : \E d \in 0..9 : DecDigits[d + 1] = str[i]

\* int(str) of a string of digits
RECURSIVE StrToInt(_)
StrToInt(str) ==
    IF str = <<>> THEN 0
    ELSE 10 * StrToInt(SubSeq(str, 1, Len(str) - 1)) + DigitVal(str[Len(str)])

\* a sidecar file: missing, holding text, or there but not readable
MemoAbsent == [kind |-> "absent", s |-> <<>>]
MemoText(str) == [kind |-> "text", s |-> str]
MemoUnreadable == [kind |-> "unreadable", s |-> <<>>]

WriteMemoSkipped(memo, value, w) == memo

\* lines 870-874: the sidecar after the write of str(value)
WriteMemo(memo, value, w) ==
    IF w = "ok" THEN MemoText(IntToStr(value))
    ELSE IF w = "openfail" THEN memo
    ELSE MemoText(<<>>)

\* lines 875-876: progress_map[self.file_path] = self.current_scroll_value
PutProgressNowhere(cfg, path, value) == cfg

PutProgressEverywhere(cfg, path, value) ==
    [cfg EXCEPT !.reading_progress = [q \in Paths |-> PInt(value)]]

PutProgress(cfg, path, value) ==
    [cfg EXCEPT !.reading_progress[path] = PInt(value)]

\* line 893: f.readline().strip()
MemoLine(memo) == Strip(Head(Split(memo.s)))

\* lines 890-895: the sidecar is there, opens and holds digits
MemoHoldsInt(memo) == memo.kind = "text" /\ IsDigit(MemoLine(memo))

\* lines 881-888: the entry of the map is an int or a string of digits
UsableEntry(v) == v.kind = "int" \/ (v.kind = "str" /\ IsDigit(v.s))

EntryValue(v) == IF v.kind = "int" THEN v.n ELSE StrToInt(v.s)

\* lines 879-899: _load_progress on configuration cfg with the offset at
\* `value`; gives the offset, the configuration and the configuration file
LoadProgressMemoFirst(cfg, file, path, memo, value, w) ==
    IF MemoHoldsInt(memo)
    THEN [value |-> StrToInt(MemoLine(memo)),
          config |-> PutProgress(cfg, path, StrToInt(MemoLine(memo))),
          file |-> SaveConfig(file, PutProgress(cfg, path, StrToInt(MemoLine(memo))), w),
          source |-> "memo"]
    ELSE IF UsableEntry(cfg.reading_progress[path])
    THEN [value |-> EntryValue(cfg.reading_progress[path]), config |-> cfg,
          file |-> file, source |-> "map"]
    ELSE [value |-> value, config |-> cfg, file |-> file, source |-> "none"]

LoadProgressNotPromoting(cfg, file, path, memo, value, w) ==
    IF UsableEntry(cfg.reading_progress[path])
    THEN [value |-> EntryValue(cfg.reading_progress[path]), config |-> cfg,
          file |-> file, source |-> "map"]
    ELSE IF MemoHoldsInt(memo)
    THEN [value |-> StrToInt(MemoLine(memo)), config |-> cfg, file |-> file,
          source |-> "memo"]
    ELSE [value |-> value, config |-> cfg, file |-> file, source |-> "none"]

LoadProgress(cfg, file, path, memo, value, w) ==
    IF UsableEntry(cfg.reading_progress[path])
    THEN [value |-> EntryValue(cfg.reading_progress[path]), config |-> cfg,
          file |-> file, source |-> "map"]
    ELSE IF MemoHoldsInt(memo)
    THEN [value |-> StrToInt(MemoLine(memo)),
          config |-> PutProgress(cfg, path, StrToInt(MemoLine(memo))),
          file |-> SaveConfig(file, PutProgress(cfg, path, StrToInt(MemoLine(memo))), w),
          source |-> "memo"]
    ELSE [value |-> value, config |-> cfg, file |-> file, source |-> "none"]

-----------------------------------------------------------------------------
(* The reader window: ReaderWindow, lines 482-1102 *)

\* line 848: fontMetrics().lineSpacing(), in pixels
LineHeight == 3

Max(a, b) == IF a >= b THEN a ELSE b
Min(a, b) == IF a <= b THEN a ELSE b

\* int(str): surrounding whitespace and one sign are accepted
IntBase10(str) ==
    LET t == Strip(str)
        signed == t # <<>> /\ Head(t) \in {"+", "-"}
        digits == IF signed THEN Tail(t) ELSE t
    IN IF ~IsDigit(digits) THEN [kind |-> "ValueError", n |-> 0]
       ELSE IF signed /\ Head(t) = "-"
       THEN [kind |-> "int", n |-> 0 - StrToInt(digits)]
       ELSE [kind |-> "int", n |-> StrToInt(digits)]

\* line 700, int(line_scroll_default): a float is truncated towards zero,
\* NaN and a string that is no integer raise ValueError, null, a list or an
\* object TypeError, and Infinity OverflowError
IntOf(v) ==
    IF v.kind \in {"int", "bool"} THEN [kind |-> "int", n |-> v.n]
    ELSE IF v.kind = "float"
    THEN [kind |-> "int",
          n |-> IF v.n >= 0 THEN v.n \div 10 ELSE 0 - ((0 - v.n) \div 10)]
    ELSE IF v.kind = "str" THEN IntBase10(v.s)
    ELSE IF v.kind = "nan" THEN [kind |-> "ValueError", n |-> 0]
    ELSE IF v.kind = "inf" THEN [kind |-> "OverflowError", n |-> 0]
    ELSE [kind |-> "TypeError", n |-> 0]

\* lines 698-702: the value of lines_per_scroll, or the error that the
\* `except (ValueError, TypeError)` lets through
LinesPerScrollOf(v) ==
    LET i == IntOf(v) IN
    IF i.kind = "int" THEN [kind |-> "ret", n |-> Max(1, i.n)]
    ELSE IF i.kind \in {"ValueError", "TypeError"}
    THEN [kind |-> "ret", n |-> LinesPerScroll]
    ELSE [kind |-> "raise", n |-> 0]

\* lines 685-703: _load_variables_from_config, the attributes the model
\* follows and the configuration with the coerced value written back
LoadVariablesFromConfig(cfg) ==
    LET lines == LinesPerScrollOf(cfg.line_scroll_lines) IN
    [raised |-> lines.kind = "raise",
     font_size |-> cfg.font_size,
     lines_per_scroll |-> lines.n,
     config |-> IF lines.kind = "raise" THEN cfg
                ELSE [cfg EXCEPT !.line_scroll_lines = PInt(lines.n)]]

\* what the files hold that the model reads as documents
DocText(path) ==
    IF path = "novel.txt"
    THEN <<"DI", "YI", "ZHANG", " ", "x", NL, "x", "x", NL, " ", "1", ".", " ", "x">>
    ELSE <<>>

\* lines 705-715: _load_text; the two messages match no pattern
LoadText(doc, path) ==
    IF doc.state = "missing" THEN <<"x", "x", NL, NL, "x">>
    ELSE IF doc.state = "ok" THEN DocText(path)
    ELSE <<"x", "x", NL, "x">>

\* the scrollbar maximum the layout of a text gives
ScrollMaxima(t) == IF t = <<>> THEN {0} ELSE {0, MaxScroll}

NoSave == [valid |-> FALSE, path |-> "", value |-> 0, memoW |-> "ok", cfgW |-> "ok"]

NoStart == [valid |-> FALSE, path |-> "", entry |-> PNone, memo |-> MemoAbsent,
            source |-> "none", cfgW |-> "ok"]

NoJump == [valid |-> FALSE, inRange |-> FALSE, ended |-> "none"]

\* lines 950-964: the hotkeys start_all_monitoring registers
MonitoringHotkeys ==
    {"down", "up", "alt+up", "alt+down", "ctrl+s", "ctrl+m", "ctrl+d"}

\* lines 950-964: start_all_monitoring on m, the flag is_monitoring_active
\* and the registered hotkeys
StartAllMonitoring(m) ==
    IF ~m.active
    THEN [active |-> TRUE, hotkeys |-> m.hotkeys \cup MonitoringHotkeys]
    ELSE m

\* lines 966-975: stop_all_monitoring: remove_all_hotkeys, then 'ctrl+alt'
StopAllMonitoring(m) ==
    IF m.active THEN [active |-> FALSE, hotkeys |-> {"ctrl+alt"}] ELSE m

\* lines 977-982: toggle_all_monitoring
ToggleAllMonitoring(m) ==
    IF m.active THEN StopAllMonitoring(m) ELSE StartAllMonitoring(m)

NoScrollCall == [active |-> FALSE, line_count |-> 0, new_value |-> 0]

\* the process exists: callbacks of the keyboard library's thread can run
ProcessAlive == phase \in {"ready", "closed"}

\* the Qt event loop runs: timers fire and the widgets receive input
EventLoopRuns == phase = "ready"

\* lines 1113-1114 and 483-616: load_config() and ReaderWindow(config)
StartWindow(lv) ==
    /\ \E wCache \in WriteResults, wCfg \in WriteResults :
        LET cfg == lv.config
            path == cfg.file_path
            enc == EncodingOutcome(cacheFile, docs[path], path, wCache)
            t == LoadText(docs[path], path)
            lp == LoadProgress(cfg, configFile, path, memos[path], 0, wCfg)
        IN /\ enc.kind = "ret"
           /\ cacheFile' = enc.file
           /\ text' = t
           /\ chapters' = Extract(<<>>, t)
           /\ prevChapters' = <<>>
           /\ builds' = 1
           /\ config' = lp.config
           /\ configFile' = lp.file
           /\ current_scroll_value' = lp.value
           /\ sbValue' = 0
           /\ sbMax' \in ScrollMaxima(t)
           /\ restorePending' = (t # <<>>)
           /\ startInfo' = [valid |-> TRUE, path |-> path,
                            entry |-> cfg.reading_progress[path],
                            memo |-> memos[path], source |-> lp.source,
                            cfgW |-> IF lp.source = "memo" THEN wCfg ELSE "ok"]
    /\ phase' = "ready"
    /\ font_size' = lv.font_size
    /\ lines_per_scroll' = lv.lines_per_scroll
    /\ LET m == ToggleAllMonitoring([active |-> FALSE, hotkeys |-> hotkeys])
       IN is_monitoring_active' = m.active /\ hotkeys' = m.hotkeys
    /\ timerActive' = TRUE
    /\ lastJump' = NoJump
    /\ UNCHANGED <<settingOps, lastWrite, scrollCall>>
    /\ lastOp' = "start"
    /\ UNCHANGED <<docs, envChanges, encLast, encPrev, encModified, encCalls,
                   memos, lastSave, pureVars>>

\* line 486 raises: the constructor and with it the process end there
StartFails(cfg) ==
    /\ phase' = "failed"
    /\ config' = cfg
    /\ lastOp' = "start_failed"
    /\ UNCHANGED <<encVars, chapVars, pureVars, fileVars, current_scroll_value,
                   sbValue, sbMax, restorePending, lastSave, startInfo,
                   ctlVars, attrVars, scrollCall>>

Start ==
    /\ phase = "off"
    /\ LET lv == LoadVariablesFromConfig(LoadConfig(configFile))
       IN IF lv.raised THEN StartFails(lv.config) ELSE StartWindow(lv)

\* lines 837-841: _restore_scroll_position, 50 ms after _show_current_page
RestoreScrollPosition ==
    /\ EventLoopRuns
    /\ restorePending
    /\ current_scroll_value' = Max(0, Min(current_scroll_value, sbMax))
    /\ sbValue' = Max(0, Min(current_scroll_value, sbMax))
    /\ restorePending' = FALSE
    /\ lastOp' = "restore"
    /\ lastJump' = NoJump
    /\ startInfo' = NoStart
    /\ UNCHANGED <<encVars, chapVars, pureVars, fileVars, lastSave,
                   phase, config, sbMax, hotkeys, timerActive, settingOps,
                   lastWrite, attrVars, scrollCall>>

\* lines 996-1000: resizeEvent, when the window is shown and when it is resized
ResizeEvent ==
    /\ EventLoopRuns
    /\ current_scroll_value' = sbValue
    /\ lastOp' = "resize"
    /\ lastJump' = NoJump
    /\ startInfo' = NoStart
    /\ UNCHANGED <<encVars, chapVars, pureVars, fileVars, lastSave,
                   phase, config, sbValue, sbMax, restorePending, hotkeys,
                   timerActive, settingOps, lastWrite, attrVars, scrollCall>>

ScrollLinesUnclamped(lineCount) ==
    /\ lineCount # 0
    /\ sbValue' = sbValue + LineHeight * lineCount
    /\ current_scroll_value' = sbValue'
    /\ lastOp' = "scroll"
    /\ lastJump' = NoJump
    /\ startInfo' = NoStart
    /\ UNCHANGED <<encVars, chapVars, pureVars, fileVars, lastSave,
                   phase, config, sbMax, restorePending, hotkeys, timerActive,
                   settingOps, lastWrite, attrVars, scrollCall>>

ScrollLinesSaving(lineCount) ==
    /\ lineCount # 0
    /\ sbValue' = Max(0, Min(sbMax, sbValue + LineHeight * lineCount))
    /\ current_scroll_value' = sbValue'
    /\ LET path == config.file_path
           cfg == [config EXCEPT !.reading_progress[path] = PInt(sbValue')]
       IN /\ config' = cfg
          /\ configFile' = ConfigOk(cfg)
          /\ memos' = [memos EXCEPT ![path] = MemoText(IntToStr(sbValue'))]
    /\ lastOp' = "scroll"
    /\ lastJump' = NoJump
    /\ startInfo' = NoStart
    /\ UNCHANGED <<encVars, chapVars, pureVars, lastSave,
                   phase, sbMax, restorePending, hotkeys, timerActive,
                   settingOps, lastWrite, attrVars, scrollCall>>

\* lines 843-853: _scroll_lines(line_count)
ScrollLines(lineCount) ==
    /\ lineCount # 0
    /\ sbValue' = Max(0, Min(sbMax, sbValue + LineHeight * lineCount))
    /\ current_scroll_value' = sbValue'
    /\ lastOp' = "scroll"
    /\ lastJump' = NoJump
    /\ startInfo' = NoStart
    /\ UNCHANGED <<encVars, chapVars, pureVars, fileVars, lastSave,
                   phase, config, sbMax, restorePending, hotkeys, timerActive,
                   settingOps, lastWrite, attrVars, scrollCall>>

\* lines 855-857: next_page, from the hotkey 'down' (line 955) or from a left
\* click in page mode (lines 1019-1027)
NextPage ==
    /\ \/ ProcessAlive /\ "down" \in hotkeys /\ ~scrollCall.active
       \/ EventLoopRuns /\ config.left_click_mode = "page"
    /\ ScrollLines(lines_per_scroll)

\* lines 859-861: prev_page, from the hotkey 'up' (line 956)
PrevPage ==
    /\ ProcessAlive /\ "up" \in hotkeys /\ ~scrollCall.active
    /\ ScrollLines(0 - lines_per_scroll)

\* The keyboard library calls next_page and prev_page in its own thread, not
\* in the thread of the Qt event loop, and nothing synchronises the two: the
\* call can be suspended between reading the scrollbar (lines 846-849) and
\* writing it (lines 850-853) while the event loop handles an event.  The
\* library runs one callback at a time.

\* lines 846-849: new_value = scrollbar.value() + line_height * line_count
ScrollLinesRead(lineCount) ==
    /\ lineCount # 0
    /\ ~scrollCall.active
    /\ scrollCall' = [active |-> TRUE, line_count |-> lineCount,
                      new_value |-> sbValue + LineHeight * lineCount]
    /\ UNCHANGED <<encVars, chapVars, pureVars, fileVars, winVars, histVars,
                   ctlVars, attrVars>>

\* lines 850-853: the rest of the suspended call
ScrollLinesWrite ==
    /\ ProcessAlive
    /\ scrollCall.active
    /\ sbValue' = Max(0, Min(sbMax, scrollCall.new_value))
    /\ current_scroll_value' = sbValue'
    /\ scrollCall' = NoScrollCall
    /\ lastOp' = "scroll"
    /\ lastJump' = NoJump
    /\ startInfo' = NoStart
    /\ UNCHANGED <<encVars, chapVars, pureVars, fileVars, lastSave,
                   phase, config, sbMax, restorePending, hotkeys, timerActive,
                   settingOps, lastWrite, attrVars>>

\* the hotkey 'down' or 'up', its callback suspended after the read
HotkeyPageRead ==
    /\ ProcessAlive
    /\ \/ "down" \in hotkeys /\ ScrollLinesRead(lines_per_scroll)
       \/ "up" \in hotkeys /\ ScrollLinesRead(0 - lines_per_scroll)

\* lines 868-877: _save_progress of offset `value`
SaveProgressOf(cfg0, value, wMemo, wCfg) ==
    LET path == cfg0.file_path
        cfg == PutProgress(cfg0, path, value)
    IN /\ memos' = [memos EXCEPT ![path] = WriteMemo(@, value, wMemo)]
       /\ config' = cfg
       /\ configFile' = SaveConfig(configFile, cfg, wCfg)
       /\ lastSave' = [valid |-> TRUE, path |-> path, value |-> value,
                       memoW |-> wMemo, cfgW |-> wCfg]

SaveProgress(value, wMemo, wCfg) == SaveProgressOf(config, value, wMemo, wCfg)

\* lines 863-866: the 5 s timer
AutoSaveProgress ==
    /\ EventLoopRuns
    /\ timerActive
    /\ current_scroll_value' = sbValue
    /\ \E wMemo \in WriteResults, wCfg \in WriteResults :
        SaveProgress(sbValue, wMemo, wCfg)
    /\ lastOp' = "autosave"
    /\ lastJump' = NoJump
    /\ startInfo' = NoStart
    /\ UNCHANGED <<encVars, chapVars, pureVars, phase, sbValue, sbMax,
                   restorePending, hotkeys, timerActive, settingOps, lastWrite,
                   attrVars, scrollCall>>

\* lines 757-758: 0 <= index < len(self.chapters)
InRange(index, chs) == 0 <= index /\ index < Len(chs)

\* lines 755-768: jump_to_chapter for the row `index` of the clicked item
\* (-1 for an item that is not in the list).  ensureCursorVisible leaves the
\* scrollbar where the layout puts the chapter; the method returns None in
\* both branches.
JumpToChapter(index) ==
    /\ EventLoopRuns
    /\ IF InRange(index, chapters)
       THEN \E v \in {0, sbValue, sbMax},
               wMemo \in WriteResults, wCfg \in WriteResults :
              /\ sbValue' = v
              /\ current_scroll_value' = v
              /\ SaveProgress(v, wMemo, wCfg)
       ELSE UNCHANGED <<sbValue, current_scroll_value, fileVars, config, lastSave>>
    /\ lastJump' = [valid |-> TRUE, inRange |-> InRange(index, chapters),
                    ended |-> "returned"]
    /\ lastOp' = "jump"
    /\ startInfo' = NoStart
    /\ UNCHANGED <<encVars, chapVars, pureVars, phase, sbMax,
                   restorePending, hotkeys, timerActive, settingOps, lastWrite,
                   attrVars, scrollCall>>

\* lines 876 and 1094: the outcome of two writes of the same configuration,
\* one after the other, as the outcome of one write: the second one decides
\* unless it leaves the file alone
TwoWrites(first, second) == IF second = "openfail" THEN first ELSE second

\* lines 1097-1099: stop_all_monitoring(), then keyboard.unhook_all()
HotkeysAfterClose(hk) == {}

\* lines 1075-1102: closeEvent; font_size goes into the configuration (line
\* 1082), save_config runs once more at line 1094, the timer is stopped and
\* the hotkeys are removed
CloseEvent ==
    /\ EventLoopRuns
    /\ current_scroll_value' = sbValue
    /\ \E wMemo \in WriteResults,
          w \in {TwoWrites(wCfg, wAgain) : wCfg, wAgain \in WriteResults} :
        SaveProgressOf([config EXCEPT !.font_size = font_size], sbValue, wMemo, w)
    /\ phase' = "closed"
    /\ timerActive' = FALSE
    /\ is_monitoring_active' =
           StopAllMonitoring([active |-> is_monitoring_active,
                              hotkeys |-> hotkeys]).active
    /\ hotkeys' = HotkeysAfterClose(hotkeys)
    /\ lastOp' = "close"
    /\ lastJump' = NoJump
    /\ startInfo' = NoStart
    /\ UNCHANGED <<encVars, chapVars, pureVars, sbValue, sbMax,
                   restorePending, settingOps, lastWrite, font_size,
                   lines_per_scroll, scrollCall>>

\* line 1117: the process ends, after the window closed or without closeEvent
Exit ==
    /\ phase \in {"ready", "closed"}
    /\ phase' = "off"
    /\ restorePending' = FALSE
    /\ hotkeys' = {}
    /\ timerActive' = FALSE
    /\ is_monitoring_active' = FALSE
    /\ scrollCall' = NoScrollCall
    /\ lastOp' = "exit"
    /\ lastJump' = NoJump
    /\ startInfo' = NoStart
    /\ UNCHANGED <<encVars, chapVars, pureVars, fileVars, lastSave,
                   config, current_scroll_value, sbValue, sbMax, settingOps,
                   lastWrite, font_size, lines_per_scroll>>

\* line 972: the hotkey 'ctrl+alt' calls toggle_all_monitoring.  Only
\* stop_all_monitoring registers it, and stop_all_monitoring runs only from
\* this callback and from closeEvent, so no specification below can take
\* this step and none has it in its next-state relation.
PressCtrlAlt ==
    /\ ProcessAlive
    /\ "ctrl+alt" \in hotkeys
    /\ LET m == ToggleAllMonitoring([active |-> is_monitoring_active,
                                     hotkeys |-> hotkeys])
       IN is_monitoring_active' = m.active /\ hotkeys' = m.hotkeys
    /\ lastOp' = "toggle_all_monitoring"
    /\ lastJump' = NoJump
    /\ startInfo' = NoStart
    /\ UNCHANGED <<encVars, chapVars, pureVars, fileVars, winVars, lastSave,
                   timerActive, settingOps, lastWrite, font_size,
                   lines_per_scroll, scrollCall>>

\* a setter can run: the settings window and the title bar need the event
\* loop, a hotkey only the process
SettingAllowed == settingOps < MaxSettingOps

\* what every setter leaves alone
SetterFrame ==
    UNCHANGED <<encVars, chapVars, pureVars, memos, phase, current_scroll_value,
                sbValue, sbMax, restorePending, lastSave, hotkeys, timerActive,
                lines_per_scroll, is_monitoring_active, scrollCall>>

\* a setter that ends with save_config(self.config): cfg is the configuration
\* it leaves in memory, w the outcome of the write
SetAndSave(name, cfg, w) ==
    /\ config' = cfg
    /\ configFile' = SaveConfig(configFile, cfg, w)
    /\ lastWrite' = w
    /\ settingOps' = settingOps + 1
    /\ lastOp' = name
    /\ lastJump' = NoJump
    /\ startInfo' = NoStart
    /\ UNCHANGED font_size
    /\ SetterFrame

\* a setter of the font size, which does not call save_config: size is the
\* new self.font_size, cfg the configuration it leaves in memory
SetOnly(name, size, cfg) ==
    /\ font_size' = size
    /\ config' = cfg
    /\ lastWrite' = "none"
    /\ settingOps' = settingOps + 1
    /\ lastOp' = name
    /\ lastJump' = NoJump
    /\ startInfo' = NoStart
    /\ UNCHANGED configFile
    /\ SetterFrame

\* lines 901-919: max(6, min(72, size))
ClampFontSize(size) == Max(6, Min(72, size))

\* lines 901-909: update_font_size(delta), from the hotkeys alt+up and
\* alt+down (lines 957-958) and the buttons of the settings window
UpdateFontSize(delta) ==
    /\ SettingAllowed
    /\ \/ EventLoopRuns
       \/ ProcessAlive /\ {"alt+up", "alt+down"} \subseteq hotkeys
    /\ LET size == ClampFontSize(font_size + delta)
       IN SetOnly("update_font_size", size, [config EXCEPT !.font_size = size])

\* lines 921-927: set_font_family
SetFontFamily(family) ==
    /\ SettingAllowed
    /\ EventLoopRuns
    /\ \E w \in WriteResults :
        SetAndSave("set_font_family", [config EXCEPT !.font_family = family], w)

\* lines 380-387: choose_font: set_font_family (which saves), then
\* update_font_size_direct (lines 911-919), which does not
ChooseFont(family, size) ==
    /\ SettingAllowed
    /\ EventLoopRuns
    /\ font_size' = ClampFontSize(size)
    /\ \E w \in WriteResults :
        /\ config' = [config EXCEPT !.font_family = family,
                                    !.font_size = ClampFontSize(size)]
        /\ configFile' = SaveConfig(configFile,
                                    [config EXCEPT !.font_family = family], w)
        /\ lastWrite' = w
    /\ settingOps' = settingOps + 1
    /\ lastOp' = "update_font_size_direct"
    /\ lastJump' = NoJump
    /\ startInfo' = NoStart
    /\ SetterFrame

\* lines 818-825: auto_adjust_font_color on the configuration cfg
AutoAdjustFontColor(cfg) ==
    IF cfg.auto_font_color /\ cfg.background_color # Transparent
    THEN [cfg EXCEPT !.font_color = GetContrastColor(cfg.background_color)]
    ELSE cfg

\* lines 929-940: set_background_color(color), save=True
SetBackgroundColor(color) ==
    /\ SettingAllowed
    /\ EventLoopRuns
    /\ \E w \in WriteResults :
        SetAndSave("set_background_color",
                   AutoAdjustFontColor([config EXCEPT !.background_color = color]),
                   w)

\* lines 942-948: set_font_color(color), save=True
SetFontColor(color) ==
    /\ SettingAllowed
    /\ EventLoopRuns
    /\ \E w \in WriteResults :
        SetAndSave("set_font_color", [config EXCEPT !.font_color = color], w)

\* lines 418-427: SettingsWindow.toggle_auto_font_color
ToggleAutoFontColor(enabled) ==
    /\ SettingAllowed
    /\ EventLoopRuns
    /\ \E w \in WriteResults :
        SetAndSave("toggle_auto_font_color",
                   AutoAdjustFontColor([config EXCEPT !.auto_font_color = enabled]),
                   w)

\* lines 770-781: toggle_catalog_panel(show), from the hotkey ctrl+d, the
\* title bar and the settings window
ToggleCatalogPanel(show) ==
    /\ SettingAllowed
    /\ \/ EventLoopRuns
       \/ ProcessAlive /\ "ctrl+d" \in hotkeys
    /\ \E w \in WriteResults :
        SetAndSave("toggle_catalog_panel", [config EXCEPT !.show_catalog = show], w)

\* lines 412-416: SettingsWindow.change_left_click_mode
ChangeLeftClickMode(mode) ==
    /\ SettingAllowed
    /\ EventLoopRuns
    /\ \E w \in WriteResults :
        SetAndSave("change_left_click_mode",
                   [config EXCEPT !.left_click_mode = mode], w)

\* lines 393-410: SettingsWindow.change_transparency
ChangeTransparency(opacity) ==
    /\ SettingAllowed
    /\ EventLoopRuns
    /\ \E w \in WriteResults :
        SetAndSave("change_transparency",
                   [config EXCEPT !.window_opacity = opacity], w)

-----------------------------------------------------------------------------
(* Initial states and specifications *)

\* no window has been built: the attributes are not there yet (the model
\* keeps the defaults in their place)
AttrIdle ==
    /\ font_size = DefaultConfig.font_size
    /\ lines_per_scroll = LinesPerScroll
    /\ is_monitoring_active = FALSE
    /\ scrollCall = NoScrollCall

\* no process is running and nothing is on disk
SessionIdle ==
    /\ phase = "off"
    /\ config = DefaultConfig
    /\ configFile = ConfigAbsent
    /\ memos = [p \in Paths |-> MemoAbsent]
    /\ current_scroll_value = 0
    /\ sbValue = 0
    /\ sbMax = 0
    /\ restorePending = FALSE
    /\ lastOp = "none"
    /\ lastSave = NoSave
    /\ startInfo = NoStart
    /\ hotkeys = {}
    /\ timerActive = FALSE
    /\ lastJump = NoJump
    /\ settingOps = 0
    /\ lastWrite = "none"
    /\ AttrIdle

\* no call of get_contrast_color or load_config has been made
PureIdle ==
    /\ colorCall = NoColorCall
    /\ colorPrev = NoColorCall
    /\ loaded = NotLoaded

\* no call of get_file_encoding is under way
EncodingIdle ==
    /\ cacheFile = FileAbsent
    /\ docs = [p \in Paths |-> DocMissing]
    /\ encLast = NoCall
    /\ encPrev = NoCall
    /\ encModified = {}
    /\ encCalls = 0
    /\ envChanges = 0

InitChapters ==
    /\ text \in Texts
    /\ chapters = <<>>
    /\ prevChapters = <<>>
    /\ builds = 0
    /\ EncodingIdle
    /\ SessionIdle
    /\ PureIdle

NextChapters == ExtractChapters

SpecChapters == InitChapters /\ [][NextChapters]_vars

EntryChoices ==
    {NoEntry, NonRecord, Entry("big5", 1), Entry("big5", NoMtime),
     Entry(NoEncoding, 1)}

CacheFileChoices ==
    {FileAbsent, FileGarbage, FileScalar, FileList({}), FileList({"novel.txt"})}
        \cup {FileMap(es) : es \in [Paths -> EntryChoices]}

\* no text loaded, no index built
ChaptersIdle ==
    /\ text = <<>>
    /\ chapters = <<>>
    /\ prevChapters = <<>>
    /\ builds = 0

InitEncoding ==
    /\ cacheFile \in CacheFileChoices
    /\ docs \in [Paths -> {DocMissing, DocOk(1, "gbk")}]
    /\ encLast = NoCall
    /\ encPrev = NoCall
    /\ encModified = {}
    /\ encCalls = 0
    /\ envChanges = 0
    /\ ChaptersIdle
    /\ SessionIdle
    /\ PureIdle

NextEncoding ==
    \/ \E p \in Paths : GetFileEncoding(p)
    \/ \E p \in Paths : ChangeDocument(p)

SpecEncoding == InitEncoding /\ [][NextEncoding]_vars

\* the reading_progress values a configuration file starts with
ProgressChoices ==
    {PNone, PInt(7), PStr(<<"1", "0">>), PStr(<<"x">>), POther}

\* a configuration file for novel.txt with the entry v, and one for the
\* missing document b.txt
NovelConfig(v) ==
    ConfigOk([DefaultConfig EXCEPT
                !.reading_progress = [q \in Paths |->
                    IF q = "novel.txt" THEN v ELSE PInt(3)]])

MissingDocConfig ==
    ConfigOk([DefaultConfig EXCEPT
                !.file_path = "b.txt",
                !.reading_progress = [q \in Paths |->
                    IF q = "b.txt" THEN PNone ELSE PInt(3)]])

ConfigFileChoices ==
    {ConfigAbsent, ConfigGarbage, MissingDocConfig}
        \cup {NovelConfig(v) : v \in ProgressChoices}

MemoChoices ==
    {MemoAbsent, MemoUnreadable, MemoText(<<" ", "9", NL>>), MemoText(<<"-", "5">>)}

\* the configuration file and the sidecar of its document that a first
\* process finds
StartChoices ==
    { <<ConfigAbsent, MemoAbsent>>,
      <<ConfigAbsent, MemoText(<<" ", "9", NL>>)>>,
      <<ConfigGarbage, MemoAbsent>>,
      <<NovelConfig(PNone), MemoText(<<" ", "9", NL>>)>>,
      <<NovelConfig(PNone), MemoUnreadable>>,
      <<NovelConfig(PInt(7)), MemoText(<<" ", "9", NL>>)>>,
      <<NovelConfig(PStr(<<"1", "0">>)), MemoAbsent>>,
      <<NovelConfig(PStr(<<"x">>)), MemoText(<<" ", "9", NL>>)>>,
      <<NovelConfig(PStr(<<"x">>)), MemoText(<<"-", "5">>)>>,
      <<NovelConfig(POther), MemoAbsent>>,
      <<MissingDocConfig, MemoText(<<" ", "9", NL>>)>>,
      <<MissingDocConfig, MemoAbsent>> }

Init ==
    /\ phase = "off"
    /\ \E c \in StartChoices :
        /\ c[1] \in ConfigFileChoices /\ c[2] \in MemoChoices
        /\ configFile = c[1]
        /\ memos = [p \in Paths |->
                        IF p = LoadConfig(c[1]).file_path THEN c[2] ELSE MemoAbsent]
    /\ config = DefaultConfig
    /\ current_scroll_value = 0
    /\ sbValue = 0
    /\ sbMax = 0
    /\ restorePending = FALSE
    /\ lastOp = "none"
    /\ lastSave = NoSave
    /\ startInfo = NoStart
    /\ hotkeys = {}
    /\ timerActive = FALSE
    /\ lastJump = NoJump
    /\ settingOps = 0
    /\ lastWrite = "none"
    /\ AttrIdle
    /\ cacheFile = FileMap([p \in Paths |-> Entry("gbk", 1)])
    /\ docs = [p \in Paths |-> IF p = "novel.txt" THEN DocOk(1, "gbk") ELSE DocMissing]
    /\ encLast = NoCall
    /\ encPrev = NoCall
    /\ encModified = {}
    /\ encCalls = 0
    /\ envChanges = 0
    /\ ChaptersIdle
    /\ PureIdle

\* rows a click in the catalogue can give: -1 (no such item), the first
\* chapter, and one past the last chapter of the longest index
JumpIndices == {0 - 1, 0, 2}

Next ==
    \/ Start
    \/ RestoreScrollPosition
    \/ ResizeEvent
    \/ NextPage
    \/ PrevPage
    \/ HotkeyPageRead
    \/ ScrollLinesWrite
    \/ AutoSaveProgress
    \/ \E index \in JumpIndices : JumpToChapter(index)
    \/ CloseEvent
    \/ Exit

Spec == Init /\ [][Next]_vars

InitColor ==
    /\ colorCall = NoColorCall
    /\ colorPrev = NoColorCall
    /\ loaded = NotLoaded
    /\ EncodingIdle
    /\ ChaptersIdle
    /\ SessionIdle

NextColor == \E c \in Colors : ContrastCall(c)

SpecColor == InitColor /\ [][NextColor]_vars

\* a configuration file with every key of the model set to another value
\* than its default, and a key load_config does not know
CustomConfig ==
    [file_path |-> "b.txt",
     font_family |-> "SimHei",
     font_size |-> 12,
     font_color |-> Black,
     background_color |-> White,
     auto_font_color |-> FALSE,
     window_opacity |-> 50,
     show_catalog |-> TRUE,
     left_click_mode |-> "page",
     reading_progress |-> [p \in Paths |-> PInt(3)],
     theme |-> "dark"]

\* the keys that the files of the model may lack
OptionalKeys ==
    {"file_path", "font_size", "background_color", "auto_font_color",
     "reading_progress", "theme"}

LoadFileChoices ==
    {ConfigAbsent, ConfigGarbage, ConfigNonMapping}
        \cup {ConfigOk([k \in (DOMAIN CustomConfig) \ missing |-> CustomConfig[k]]) :
                missing \in SUBSET OptionalKeys}

InitConfig ==
    /\ configFile \in LoadFileChoices
    /\ phase = "off"
    /\ config = DefaultConfig
    /\ memos = [p \in Paths |-> MemoAbsent]
    /\ current_scroll_value = 0
    /\ sbValue = 0
    /\ sbMax = 0
    /\ restorePending = FALSE
    /\ lastOp = "none"
    /\ lastSave = NoSave
    /\ startInfo = NoStart
    /\ hotkeys = {}
    /\ timerActive = FALSE
    /\ lastJump = NoJump
    /\ settingOps = 0
    /\ lastWrite = "none"
    /\ AttrIdle
    /\ colorCall = NoColorCall
    /\ colorPrev = NoColorCall
    /\ loaded = NotLoaded
    /\ EncodingIdle
    /\ ChaptersIdle

NextConfig == LoadConfigCall

SpecConfig == InitConfig /\ [][NextConfig]_vars

\* the configuration file of a dark window: black background, the largest
\* font size but one
DarkConfig ==
    [DefaultConfig EXCEPT !.background_color = Black, !.font_color = White,
                          !.font_size = 71]

\* lines 380-387, 434-453: the values the dialogs of the settings window
\* give; QColor.name() writes the digits in lower case
LowerWhite == <<"#", "f", "f", "f", "f", "f", "f">>

\* a configuration file whose font_size is outside 6..72
LargeFontConfig == [DefaultConfig EXCEPT !.font_size = 100]

InitSettings ==
    /\ configFile \in {ConfigAbsent, ConfigOk(DarkConfig), ConfigOk(LargeFontConfig)}
    /\ memos = [p \in Paths |-> MemoAbsent]
    /\ phase = "off"
    /\ config = DefaultConfig
    /\ current_scroll_value = 0
    /\ sbValue = 0
    /\ sbMax = 0
    /\ restorePending = FALSE
    /\ lastOp = "none"
    /\ lastSave = NoSave
    /\ startInfo = NoStart
    /\ hotkeys = {}
    /\ timerActive = FALSE
    /\ lastJump = NoJump
    /\ settingOps = 0
    /\ lastWrite = "none"
    /\ AttrIdle
    /\ cacheFile = FileMap([p \in Paths |-> Entry("gbk", 1)])
    /\ docs = [p \in Paths |-> IF p = "novel.txt" THEN DocOk(1, "gbk") ELSE DocMissing]
    /\ encLast = NoCall
    /\ encPrev = NoCall
    /\ encModified = {}
    /\ encCalls = 0
    /\ envChanges = 0
    /\ ChaptersIdle
    /\ PureIdle

NextSettings ==
    \/ Start
    \/ \E delta \in {0 - 1, 1} : UpdateFontSize(delta)
    \/ SetFontFamily("SimHei")
    \/ ChooseFont("KaiTi", 80)
    \/ \E color \in {Transparent, Black, LowerWhite} : SetBackgroundColor(color)
    \/ SetFontColor(Black)
    \/ \E enabled \in BOOLEAN : ToggleAutoFontColor(enabled)
    \/ ToggleCatalogPanel(~config.show_catalog)
    \/ ChangeLeftClickMode("page")
    \/ ChangeTransparency(50)
    \/ CloseEvent

SpecSettings == InitSettings /\ [][NextSettings]_vars

\* the values config.json may hold for line_scroll_lines: null, a list or an
\* object, Infinity, NaN, booleans, integers, floats (in tenths) and strings
LineScrollStrings ==
    UNION {[1..n -> {" ", "-", "0", "3", "a"}] : n \in 0..2}

LineScrollValues ==
    {PNone, POther, PInf, PNan, PBool(TRUE), PBool(FALSE)}
        \cup {PInt(n) : n \in (0 - 2)..6}
        \cup {PFloat(t) : t \in {0 - 15, 0 - 5, 5, 25}}
        \cup {PStr(str) : str \in LineScrollStrings}

InitLoadVars ==
    /\ \E v \in LineScrollValues :
        configFile = ConfigOk([DefaultConfig EXCEPT !.line_scroll_lines = v])
    /\ memos = [p \in Paths |-> MemoAbsent]
    /\ phase = "off"
    /\ config = DefaultConfig
    /\ current_scroll_value = 0
    /\ sbValue = 0
    /\ sbMax = 0
    /\ restorePending = FALSE
    /\ lastOp = "none"
    /\ lastSave = NoSave
    /\ startInfo = NoStart
    /\ hotkeys = {}
    /\ timerActive = FALSE
    /\ lastJump = NoJump
    /\ settingOps = 0
    /\ lastWrite = "none"
    /\ AttrIdle
    /\ cacheFile = FileMap([p \in Paths |-> Entry("gbk", 1)])
    /\ docs = [p \in Paths |-> IF p = "novel.txt" THEN DocOk(1, "gbk") ELSE DocMissing]
    /\ encLast = NoCall
    /\ encPrev = NoCall
    /\ encModified = {}
    /\ encCalls = 0
    /\ envChanges = 0
    /\ ChaptersIdle
    /\ PureIdle

NextLoadVars ==
    \/ Start
    \/ NextPage

SpecLoadVars == InitLoadVars /\ [][NextLoadVars]_vars

-----------------------------------------------------------------------------
(* Properties of get_file_encoding *)

Called == encCalls >= 1
TwoCalls == encCalls >= 2 /\ encLast.path = encPrev.path /\ ~encLast.modified

\* os.path.getmtime succeeds: the file exists and has a current mtime
HasMtime(doc) == doc.state \in {"ok", "unreadable"}

\* the cache file holds a complete entry for p with the file's mtime
FreshEntry(file, p, doc) ==
    /\ file.kind = "map"
    /\ file.entries[p].kind = "record"
    /\ file.entries[p].encoding # NoEncoding
    /\ file.entries[p].mtime = doc.mtime

\* the cache file holds an entry for p with the file's mtime
MatchingEntry(file, p, doc) ==
    /\ file.kind = "map"
    /\ file.entries[p].kind = "record"
    /\ file.entries[p].mtime = doc.mtime

\* the cache file holds no entry for p, or a record with another mtime
StaleOrNoEntry(file, p, doc) ==
    \/ file.kind \in {"absent", "garbage"}
    \/ file.kind = "map" /\ file.entries[p].kind = "none"
    \/ file.kind = "map" /\ file.entries[p].kind = "record"
                         /\ file.entries[p].mtime # doc.mtime

EntriesOf(file) == IF file.kind = "map" THEN file.entries ELSE EmptyMap

Proposed(doc) == IF doc.detect = NoneDetected THEN "utf-8" ELSE doc.detect

\* the cache file `after` is `before` with the entry of p replaced as a whole
Refreshed(before, after, p, doc) ==
    /\ after.kind = "map"
    /\ after.entries[p] =
           [kind |-> "record", encoding |-> Proposed(doc), mtime |-> doc.mtime]
    /\ \A q \in Paths \ {p} : after.entries[q] = EntriesOf(before)[q]

\* C1 (as stated): with an entry for the path whose mtime equals the file's,
\* the call returns the cached encoding without reading or detecting, and two
\* consecutive calls on an unmodified file detect at most once in total.
C1_AsStated ==
    /\ (Called /\ HasMtime(encLast.doc)
            /\ MatchingEntry(encLast.before, encLast.path, encLast.doc))
        => /\ encLast.out.kind = "ret"
           /\ encLast.out.source = "cache"
           /\ ~encLast.out.detected
    /\ TwoCalls => ~(encPrev.out.detected /\ encLast.out.detected)

\* C1 (amended): with a complete entry (encoding and mtime) for the path whose
\* mtime equals the file's, the call returns the cached encoding, reads no
\* content, runs no detection and writes nothing; of two consecutive calls on
\* an unmodified file the second runs no detection whenever the first ran
\* none or persisted the entry it detected.
C1_CacheHit ==
    /\ (Called /\ HasMtime(encLast.doc)
            /\ FreshEntry(encLast.before, encLast.path, encLast.doc))
        => /\ encLast.out.kind = "ret"
           /\ encLast.out.source = "cache"
           /\ encLast.out.value = encLast.before.entries[encLast.path].encoding
           /\ ~encLast.out.detected
           /\ ~encLast.out.contentRead
           /\ encLast.out.file = encLast.before
    /\ (TwoCalls /\ (~encPrev.out.detected \/ encPrev.out.wrote = "ok"))
        => ~encLast.out.detected

C1_Witness ==
    /\ TwoCalls
    /\ encPrev.out.detected
    /\ encPrev.out.wrote = "ok"
    /\ encLast.out.source = "cache"
    /\ encLast.out.value = "gbk"

\* C2 (as stated): when the stored mtime differs from the file's (or there is
\* no entry), detection is re-run and the entry is replaced as a whole by the
\* detected encoding and the current mtime, so the stored mtime equals the
\* file's mtime after the call; the stale encoding is never returned.
C2_AsStated ==
    (Called /\ HasMtime(encLast.doc)
        /\ StaleOrNoEntry(encLast.before, encLast.path, encLast.doc))
    => /\ encLast.out.detected
       /\ encLast.out.source # "cache"
       /\ Refreshed(encLast.before, cacheFile, encLast.path, encLast.doc)

\* C2 (amended): in that case the stale encoding is never returned; when the
\* document can be read detection is re-run, and when the cache write
\* succeeds the detected encoding is returned and the entry is replaced as a
\* whole (detected encoding, current mtime, every other entry kept); when the
\* read or the write fails the default is returned and the entry is not
\* refreshed.
C2_StaleRecomputed ==
    (Called /\ HasMtime(encLast.doc)
        /\ StaleOrNoEntry(encLast.before, encLast.path, encLast.doc))
    => /\ encLast.out.kind = "ret"
       /\ encLast.out.source # "cache"
       /\ encLast.doc.state = "ok" => encLast.out.detected
       /\ encLast.out.wrote = "ok"
            => /\ encLast.out.source = "detect"
               /\ encLast.out.value = Proposed(encLast.doc)
               /\ Refreshed(encLast.before, cacheFile, encLast.path, encLast.doc)
       /\ encLast.out.wrote # "ok"
            => /\ encLast.out.value = "utf-8"
               /\ cacheFile \in {encLast.before, FileGarbage}

C2_Witness ==
    /\ Called
    /\ encLast.before.kind = "map"
    /\ encLast.before.entries[encLast.path] = Entry("big5", 1)
    /\ encLast.doc = DocOk(2, "gbk")
    /\ encLast.out.value = "gbk"
    /\ cacheFile.entries[encLast.path] = Entry("gbk", 2)

\* C3: when the document does not exist the call returns 'utf-8', adds no
\* entry for the path and leaves the cache file as it was.
C3_MissingFile ==
    (Called /\ encLast.doc.state = "missing")
    => /\ encLast.out.kind = "ret"
       /\ encLast.out.value = "utf-8"
       /\ ~encLast.out.detected
       /\ encLast.out.file = encLast.before
       /\ cacheFile = encLast.before

C3_Witness ==
    /\ Called
    /\ encLast.doc.state = "missing"
    /\ encLast.before.kind = "map"
    /\ encLast.before.entries[encLast.path] = Entry("big5", 1)
    /\ encLast.out.value = "utf-8"

\* C4: whatever the cache file holds, the call returns an encoding name and
\* propagates no error (the document itself being there to stat).
C4_NeverPropagates ==
    (Called /\ encLast.doc.state # "nostat") => encLast.out.kind = "ret"

\* the cache write of the call was attempted and failed (lines 91-92)
CacheWriteFailed == encLast.out.detected /\ encLast.out.wrote = "fail"

\* C23: when the write of the cache file fails after a successful detection,
\* the call still returns the encoding it detected, not the default.
C23_WriteFailureKeepsDetected ==
    (Called /\ CacheWriteFailed)
    => /\ encLast.out.kind = "ret"
       /\ encLast.out.value = Proposed(encLast.doc)

\* the cache file is missing, unparseable, or a mapping of complete records
WellFormedCache(file) ==
    \/ file.kind \in {"absent", "garbage"}
    \/ /\ file.kind = "map"
       /\ \A q \in Paths :
            \/ file.entries[q].kind = "none"
            \/ /\ file.entries[q].kind = "record"
               /\ file.entries[q].encoding # NoEncoding

\* the call could not stat the document, or had to read it and could not
StatOrReadFails(file, p, doc) ==
    \/ doc.state \in {"missing", "nostat"}
    \/ doc.state = "unreadable" /\ ~FreshEntry(file, p, doc)

\* C27: with a well-formed cache file, the call raises for no state of the
\* document, and every failure to stat or read the document (file not found,
\* permission or another I/O error) yields 'utf-8'.
C27_DocumentFailuresRecovered ==
    (Called /\ WellFormedCache(encLast.before))
    => /\ encLast.out.kind = "ret"
       /\ StatOrReadFails(encLast.before, encLast.path, encLast.doc)
            => encLast.out.value = "utf-8"

-----------------------------------------------------------------------------
(* Properties of _extract_chapters *)

Built == builds >= 1

Lines == Split(text)

RECURSIVE SumLen(_, _)
SumLen(lines, n) ==
    IF n = 0 THEN 0 ELSE Len(lines[n]) + 1 + SumLen(lines, n - 1)

\* the offset in the unsplit text of the start of line i (zero-based)
OffsetOfLine(i) == SumLen(Lines, i)

\* C5: every chapter's position is the offset in the original text of the
\* start of its line.
C5_PositionIsLineOffset ==
    Built => \A k \in 1..Len(chapters) :
                chapters[k].position = OffsetOfLine(chapters[k].line_number)

\* C6: the positions strictly increase in list order, and a second build on
\* the same text leaves the same list as the first.
C6_IncreasingAndRepeatable ==
    /\ Built => \A k \in 1..(Len(chapters) - 1) :
                    chapters[k].position < chapters[k + 1].position
    /\ builds >= 2 => chapters = prevChapters

C6_Witness ==
    /\ builds >= 2
    /\ Len(chapters) >= 2
    /\ chapters[1].position < chapters[2].position

HeadingLine(i) ==
    /\ Strip(Lines[i + 1]) # <<>>
    /\ \E k \in 1..5 : ReMatch(Patterns[k], Strip(Lines[i + 1]))

\* C7: one chapter for each line whose trimmed text is non-empty and matches
\* one of the five patterns, none for any other line; the title is the
\* trimmed line, line_number the zero-based line index, in line order.
C7_OneChapterPerHeading ==
    Built =>
        /\ \A k \in 1..Len(chapters) :
            /\ chapters[k].line_number \in 0..(Len(Lines) - 1)
            /\ HeadingLine(chapters[k].line_number)
            /\ chapters[k].title = Strip(Lines[chapters[k].line_number + 1])
        /\ \A i \in 0..(Len(Lines) - 1) :
            Cardinality({k \in 1..Len(chapters) : chapters[k].line_number = i})
                = IF HeadingLine(i) THEN 1 ELSE 0
        /\ \A k \in 1..(Len(chapters) - 1) :
            chapters[k].line_number < chapters[k + 1].line_number

C7_Witness ==
    /\ Built
    /\ Len(chapters) = 2
    /\ Len(Lines) = 3
    /\ chapters[1].title = <<"c", "H", "a", "p", "t", "e", "r", " ", "1", "2">>
    /\ chapters[2].title = <<"DI", "1", "SHI", "JIE", "x">>
    /\ chapters[2].line_number = 2

-----------------------------------------------------------------------------
(* Properties of the progress store *)

JustStarted == lastOp = "start"
JustSaved == lastOp \in {"autosave", "close"}

\* the entry the construction found in the map is neither an integer nor a
\* string of digits
NoUsableEntry ==
    \/ startInfo.entry.kind \in {"none", "other"}
    \/ startInfo.entry.kind = "str" /\ ~IsDigit(startInfo.entry.s)

\* the sidecar holds the text of the integer `value`
SidecarHolds(memo, value) ==
    memo.kind = "text" /\ IsDigit(memo.s) /\ StrToInt(memo.s) = value

\* C8: a load that follows a save for the same path restores exactly the
\* saved offset, unclamped: on the configuration the save has just updated,
\* whatever the sidecar holds, and in the next process when the save persisted
\* that configuration.
C8_SaveThenLoad ==
    /\ JustSaved
        => LoadProgress(config, configFile, lastSave.path, memos[lastSave.path],
                        0, "ok").value = lastSave.value
    /\ (JustStarted /\ lastSave.valid /\ lastSave.cfgW = "ok")
        => /\ config.file_path = lastSave.path
           /\ current_scroll_value = lastSave.value

C8_Witness ==
    /\ JustStarted
    /\ lastSave.valid
    /\ lastSave.cfgW = "ok"
    /\ lastSave.memoW = "openfail"
    /\ lastSave.value = MaxScroll
    /\ current_scroll_value = MaxScroll
    /\ sbMax = 0

\* C9 (as stated): without a usable entry in the map the load yields the
\* sidecar's integer if there is one and otherwise 0; a value from the
\* sidecar is put into the map and the configuration is persisted in the
\* same load.
C9_AsStated ==
    (JustStarted /\ NoUsableEntry)
    => IF MemoHoldsInt(startInfo.memo)
       THEN /\ current_scroll_value = StrToInt(MemoLine(startInfo.memo))
            /\ config.reading_progress[startInfo.path]
                   = PInt(StrToInt(MemoLine(startInfo.memo)))
            /\ configFile = ConfigOk(config)
       ELSE current_scroll_value = 0

\* C9 (amended): as stated, except that the configuration file holds the
\* promoted value only when the write of save_config succeeds; the value is
\* in the in-memory map in every case.
C9_SidecarFallback ==
    (JustStarted /\ NoUsableEntry)
    => IF MemoHoldsInt(startInfo.memo)
       THEN /\ startInfo.source = "memo"
            /\ current_scroll_value = StrToInt(MemoLine(startInfo.memo))
            /\ config.reading_progress[startInfo.path]
                   = PInt(StrToInt(MemoLine(startInfo.memo)))
            /\ startInfo.cfgW = "ok" => configFile = ConfigOk(config)
       ELSE /\ startInfo.source = "none"
            /\ current_scroll_value = 0

C9_Witness ==
    /\ JustStarted
    /\ startInfo.entry = PStr(<<"x">>)
    /\ startInfo.memo = MemoText(<<" ", "9", NL>>)
    /\ current_scroll_value = 9
    /\ config.reading_progress["novel.txt"] = PInt(9)
    /\ configFile = ConfigOk(config)

\* C10 (as stated): every save puts the current offset into the sidecar and
\* into reading_progress[path] and persists the configuration; when the
\* sidecar write fails the entry is still updated and persisted.
C10_AsStated ==
    JustSaved
    => /\ lastSave.value = sbValue
       /\ config.reading_progress[lastSave.path] = PInt(sbValue)
       /\ configFile = ConfigOk(config)
       /\ lastSave.memoW = "ok" => SidecarHolds(memos[lastSave.path], sbValue)

\* C10 (amended): every save puts the current offset into reading_progress[path]
\* and calls save_config, whether or not the sidecar write succeeded; the
\* sidecar holds the offset when its write succeeds, and the configuration
\* file holds the configuration when the write of save_config succeeds.
C10_SaveWritesBoth ==
    JustSaved
    => /\ lastSave.value = sbValue
       /\ lastSave.path = config.file_path
       /\ config.reading_progress[lastSave.path] = PInt(sbValue)
       /\ lastSave.cfgW = "ok" => configFile = ConfigOk(config)
       /\ lastSave.memoW = "ok" => SidecarHolds(memos[lastSave.path], sbValue)

C10_Witness ==
    /\ lastOp = "autosave"
    /\ lastSave.memoW = "openfail"
    /\ lastSave.cfgW = "ok"
    /\ sbValue = MaxScroll
    /\ ~SidecarHolds(memos[lastSave.path], sbValue)
    /\ config.reading_progress[lastSave.path] = PInt(MaxScroll)
    /\ configFile = ConfigOk(config)

-----------------------------------------------------------------------------
(* Properties of load_config *)

\* C16: load_config gives the defaults when there is no file and when the
\* file is unreadable or holds no object; from an object it keeps every key
\* of the file, unknown ones included, with the stored value and adds exactly
\* the missing default keys with their defaults.
C16_LoadConfigMerges ==
    loaded.valid
    => IF configFile.kind = "ok"
       THEN /\ DOMAIN loaded.result
                  = (DOMAIN configFile.config) \cup (DOMAIN DefaultConfig)
            /\ \A k \in DOMAIN configFile.config :
                  loaded.result[k] = configFile.config[k]
            /\ \A k \in (DOMAIN DefaultConfig) \ (DOMAIN configFile.config) :
                  loaded.result[k] = DefaultConfig[k]
       ELSE /\ loaded.result = DefaultConfig
            /\ loaded.result.file_path = "novel.txt"

C16_Witness ==
    /\ loaded.valid
    /\ configFile.kind = "ok"
    /\ DOMAIN configFile.config
          = (DOMAIN CustomConfig) \ {"font_size", "reading_progress"}
    /\ loaded.result.font_size = 10
    /\ loaded.result.theme = "dark"
    /\ loaded.result.font_family = "SimHei"
    /\ loaded.result.file_path = "b.txt"

-----------------------------------------------------------------------------
(* Properties of get_contrast_color *)

\* a string that is no colour of six hexadecimal digits after an optional '#'
Malformed(c) ==
    LET h == IF c # <<>> /\ c[1] = "#" THEN Tail(c) ELSE c
    IN Len(h) # 6 \/ \E i \in 1..Len(h) : h[i] \notin HexDigits

Gray(p) == <<"#">> \o p \o p \o p

\* C19: get_contrast_color returns black when the luminance of the background
\* is above 0.5 and white otherwise, and nothing else: white for #000000, for
\* 'transparent' (luminance exactly 0.5) and for the gray BB, black for
\* #FFFFFF and for the gray BC; calls with the same input agree.
C19_ContrastColor ==
    colorCall.valid
    => /\ colorCall.result \in {Black, White}
       /\ colorCall.result = Black <=> colorCall.luminance > Half
       /\ colorCall.input = Black => colorCall.result = White
       /\ colorCall.input = White => colorCall.result = Black
       /\ colorCall.input = Transparent
            => colorCall.luminance = Half /\ colorCall.result = White
       /\ colorCall.input = Gray(<<"B", "B">>) => colorCall.result = White
       /\ colorCall.input = Gray(<<"B", "C">>) => colorCall.result = Black
       /\ (colorPrev.valid /\ colorPrev.input = colorCall.input)
            => colorPrev.result = colorCall.result

C19_Witness ==
    /\ colorCall.valid
    /\ colorPrev.valid
    /\ colorPrev.input = Gray(<<"B", "C">>)
    /\ colorPrev.result = Black
    /\ colorCall.input = Transparent
    /\ colorCall.result = White

\* C20: for every malformed colour string calculate_luminance returns 0.5, so
\* get_contrast_color returns white.
C20_MalformedIsNeutral ==
    (colorCall.valid /\ Malformed(colorCall.input))
    => /\ colorCall.luminance = Half
       /\ colorCall.result = White

-----------------------------------------------------------------------------
(* Properties of the settings *)

Setters ==
    {"update_font_size", "update_font_size_direct", "set_font_family",
     "set_background_color", "set_font_color", "toggle_auto_font_color",
     "toggle_catalog_panel", "change_left_click_mode", "change_transparency"}

\* C13: with auto-contrast enabled, after set_background_color(color) the font
\* colour is get_contrast_color(color) for every background, 'transparent'
\* included, whatever the font colour was, and the file holds both values
\* (stated for the calls whose write succeeds).
C13_AutoContrast ==
    (lastOp = "set_background_color" /\ config.auto_font_color /\ lastWrite = "ok")
    => /\ config.font_color = GetContrastColor(config.background_color)
       /\ configFile = ConfigOk(config)

\* C17: after every setter the configuration file equals the in-memory
\* configuration (stated for the setters none of whose writes failed).
C17_SettersPersist ==
    (lastOp \in Setters /\ lastWrite \in {"ok", "none"})
    => configFile = ConfigOk(config)

-----------------------------------------------------------------------------
(* Properties of the session *)

\* C11: after next_page or prev_page, whatever the size of the step, the
\* scrollbar value and current_scroll_value are equal and lie between the
\* scrollbar's minimum 0 and its maximum.
C11_ScrollClamped ==
    lastOp = "scroll"
    => /\ 0 <= sbValue
       /\ sbValue <= sbMax
       /\ current_scroll_value = sbValue

C11_Witness ==
    /\ lastOp = "scroll"
    /\ LineHeight * LinesPerScroll > MaxScroll
    /\ sbMax = MaxScroll
    /\ sbValue = MaxScroll
    /\ current_scroll_value = MaxScroll

\* C12: a jump to an index outside [0, len(chapters)) is reported to the
\* caller as a failure.
C12_OutOfRangeReported ==
    (lastOp = "jump" /\ lastJump.valid /\ ~lastJump.inRange)
    => lastJump.ended = "raised"

\* a step taken when the window has been closed changes neither the offset
\* nor a file
ClosedStepChangesNothing ==
    phase = "closed"
    => /\ current_scroll_value' = current_scroll_value
       /\ sbValue' = sbValue
       /\ config' = config
       /\ configFile' = configFile
       /\ memos' = memos
       /\ cacheFile' = cacheFile

\* C14: once closeEvent has run, no operation changes the in-memory offset or
\* a persisted file.
C14_ClosedIsTerminal == [][ClosedStepChangesNothing]_vars

\* the close has put the scrollbar value into the map, the file and the sidecar
ClosePersisted ==
    /\ config.reading_progress[config.file_path] = PInt(sbValue)
    /\ configFile = ConfigOk(config)
    /\ SidecarHolds(memos[config.file_path], sbValue)

\* C15 (as stated): two consecutive autosave ticks leave the persisted state
\* identical; after closeEvent the configuration map and the sidecar on disk
\* hold the scrollbar value of the close; no tick fires after the close.
C15_AsStated ==
    [][/\ (lastOp = "autosave" /\ lastOp' = "autosave")
            => (configFile' = configFile /\ memos' = memos)
       /\ lastOp' = "close" => ClosePersisted'
       /\ phase = "closed" => lastOp' # "autosave"]_vars

\* C15 (amended): a tick that follows a tick leaves the persisted state
\* identical when the writes of both succeed; after closeEvent the in-memory
\* map holds the scrollbar value of the close, the configuration file holds
\* it when its write succeeds and the sidecar when its write succeeds; no
\* tick fires after the close.
C15_SaveIdempotentCloseFlushes ==
    [][/\ (/\ lastOp = "autosave" /\ lastOp' = "autosave"
           /\ lastSave.memoW = "ok" /\ lastSave.cfgW = "ok"
           /\ lastSave'.memoW = "ok" /\ lastSave'.cfgW = "ok")
            => (configFile' = configFile /\ memos' = memos)
       /\ lastOp' = "close"
            => /\ config'.reading_progress[config'.file_path] = PInt(sbValue')
               /\ lastSave'.value = sbValue'
               /\ lastSave'.cfgW = "ok" => configFile' = ConfigOk(config')
               /\ lastSave'.memoW = "ok"
                    => SidecarHolds(memos'[config'.file_path], sbValue')
       /\ phase = "closed" => lastOp' # "autosave"]_vars

C15_Witness ==
    /\ lastOp = "close"
    /\ lastSave.memoW = "ok"
    /\ lastSave.cfgW = "ok"
    /\ sbValue = MaxScroll
    /\ ClosePersisted
    /\ ~timerActive

\* C18: when the document is missing no chapter is indexed, no offset is
\* loaded and no save is made for the missing path.
C18_MissingDocumentIdle ==
    (phase # "off" /\ docs[config.file_path].state = "missing")
    => /\ chapters = <<>>
       /\ JustStarted => (startInfo.source = "none" /\ current_scroll_value = 0)
       /\ ~JustSaved

\* a step of next_page or prev_page: a whole call, or the read or the write
\* of a call of the keyboard thread
ScrollStep ==
    \/ lastOp' = "scroll"
    \/ scrollCall'.active /\ ~scrollCall.active

\* C22: a step of next_page or prev_page changes nothing but the in-memory
\* offset and the scrollbar value: the configuration in memory, config.json,
\* the sidecar files and the encoding cache are as before the step.
C22_NavigationDoesNotPersist ==
    [][ScrollStep
        => /\ config' = config
           /\ configFile' = configFile
           /\ memos' = memos
           /\ cacheFile' = cacheFile
           /\ lastSave' = lastSave
           /\ UNCHANGED <<phase, sbMax, restorePending, hotkeys, timerActive,
                          font_size, lines_per_scroll, chapVars>>]_vars

C22_Witness ==
    /\ lastOp = "scroll"
    /\ sbValue = MaxScroll
    /\ current_scroll_value = MaxScroll
    /\ config.reading_progress["novel.txt"] = PInt(7)
    /\ configFile = NovelConfig(PInt(7))
    /\ memos["novel.txt"] = MemoText(<<" ", "9", NL>>)

\* C24: from the construction to the deferred _restore_scroll_position no
\* event of the window (resizeEvent, autosave tick) changes
\* current_scroll_value, and the restore puts it, clamped to [0, maximum],
\* into the scrollbar.
C24_LoadedOffsetRestored ==
    [][(restorePending /\ EventLoopRuns
            /\ lastOp' \in {"restore", "resize", "autosave"})
        => IF lastOp' = "restore"
           THEN /\ sbValue' = Max(0, Min(current_scroll_value, sbMax))
                /\ current_scroll_value' = sbValue'
           ELSE current_scroll_value' = current_scroll_value]_vars

\* C25: while the window is open the hotkey ctrl+alt is registered, whether
\* monitoring is active or paused.
C25_CtrlAltRegistered ==
    phase = "ready" => "ctrl+alt" \in hotkeys

\* C26: a next_page or prev_page called from a hotkey runs to completion
\* before anything else happens: the step after its read of the scrollbar is
\* its write, which puts the value read plus the advance, clamped, into the
\* scrollbar, so that no advance is lost.
C26_NavigationRunsToCompletion ==
    [][scrollCall.active
        => /\ ~scrollCall'.active
           /\ lastOp' = "scroll"
           /\ sbValue' = Max(0, Min(sbMax,
                              sbValue + LineHeight * scrollCall.line_count))
           /\ current_scroll_value' = sbValue']_vars

\* the steps that call _save_progress
SaveStep ==
    \/ lastOp' \in {"autosave", "close"}
    \/ lastOp' = "jump" /\ lastJump'.inRange

\* C29: a step that calls _save_progress changes, within the configuration,
\* only reading_progress[file_path], which becomes the saved offset: every
\* other key and the entry of every other path are as before.
C29_SaveChangesOneEntry ==
    [][SaveStep
        => /\ DOMAIN config' = DOMAIN config
           /\ \A k \in (DOMAIN config) \ {"reading_progress"} : config'[k] = config[k]
           /\ config'.reading_progress[config.file_path] = PInt(lastSave'.value)
           /\ \A q \in Paths \ {config.file_path} :
                config'.reading_progress[q] = config.reading_progress[q]]_vars

C29_Witness ==
    /\ lastOp = "autosave"
    /\ lastSave.value = MaxScroll
    /\ config.file_path = "novel.txt"
    /\ config.reading_progress["novel.txt"] = PInt(MaxScroll)
    /\ config.reading_progress["b.txt"] = PInt(3)
    /\ config.font_size = DefaultConfig.font_size

-----------------------------------------------------------------------------
(* Properties of _load_variables_from_config and the font size *)

\* the value is a number, or a string that int() reads as one
NumericValue(v) ==
    \/ v.kind \in {"int", "float", "bool"}
    \/ v.kind = "str" /\ IntBase10(v.s).kind = "int"

\* the value is not numeric, or null, or zero or negative
InvalidLineScroll(v) ==
    \/ ~NumericValue(v)
    \/ v.kind \in {"int", "float", "bool"} /\ v.n <= 0
    \/ v.kind = "str" /\ IntBase10(v.s).n <= 0

\* C21: after the construction has loaded the configuration, lines_per_scroll
\* is a positive integer, it is 4 for every invalid line_scroll_lines
\* (non-numeric, null, zero or negative), and the in-memory configuration
\* holds it.
C21_LinesPerScrollCoerced ==
    (lastOp \in {"start", "start_failed"} /\ configFile.kind = "ok")
    => /\ phase = "ready"
       /\ lines_per_scroll >= 1
       /\ InvalidLineScroll(configFile.config.line_scroll_lines)
            => lines_per_scroll = LinesPerScroll
       /\ config.line_scroll_lines = PInt(lines_per_scroll)

\* C28: while the window exists, font_size equals config['font_size'] and
\* lies in 6..72, whatever font_size the configuration file held.
C28_FontSizeInRange ==
    phase \in {"ready", "closed"}
    => /\ font_size = config.font_size
       /\ 6 <= font_size
       /\ font_size <= 72

====
